---- MODULE Spec2Model ----
(***************************************************************************)
(* A model of object_store.ObjectStore (python/object_store/__init__.py):  *)
(* the Python facade that coerces path-like and bytes-like arguments and   *)
(* forwards every operation to the native _internal.ObjectStore.           *)
(*                                                                         *)
(* The native class (_internal) is part of the repository but its source   *)
(* is not available; its operations (the super_* definitions, PathCtor)    *)
(* are modelled from the written specification.  Everything else is a      *)
(* translation of the Python source.                                       *)
(*                                                                         *)
(* Strings are sequences of one-character strings, a Path is a sequence of *)
(* segments, bytes are sequences of small naturals.  ObjectMeta carries    *)
(* location and size; last_modified is left out (the model has no clock).  *)
(* A listing is modelled as the set of its entries: the specification      *)
(* leaves the order to the implementation.                                 *)
(***************************************************************************)
EXTENDS Naturals, Sequences, FiniteSets

VARIABLES
    store,   \* the objects of the backend: Path -> bytes
    pc,      \* where the caller is: ready, returned (from a call) or streaming
    last,    \* the caller's current call, with the store it started from
    strm,    \* the BytesStream the caller iterates and what it has read
    buf,     \* the caller's BytesIO object: its bytes and its read position
    tasks,   \* the asyncio tasks sharing the store: the call each one is in
    cap      \* whether the backend has a native conditional write

vars == <<store, pc, last, strm, buf, tasks, cap>>

(***************************************************************************)
(* Bounds and input universes                                              *)
(***************************************************************************)

\* Longest byte payload a caller writes.
MaxLen == 2

\* Byte values used in payloads.
Bytes == {1, 2}

RECURSIVE SeqsUpTo(_, _)
SeqsUpTo(S, n) ==
    IF n = 0 THEN {<<>>}
    ELSE LET shorter == SeqsUpTo(S, n - 1)
         IN  shorter \cup {Append(s, x) : s \in {t \in shorter : Len(t) = n - 1}, x \in S}

Payloads == SeqsUpTo(Bytes, MaxLen)

\* Arguments of get_range: start is a zero-based offset, length is positive.
Starts == 0 .. (MaxLen + 1)
Lengths == 1 .. (MaxLen + 1)

DELIMITER == "/"

\* The shapes a caller can pass where a PathLike is expected.
Str(s) == [kind |-> "str", val |-> s]
Lst(l) == [kind |-> "list", val |-> l]
PathObj(p) == [kind |-> "path", val |-> p]
OtherObj == [kind |-> "other", val |-> <<>>]
NoneObj == [kind |-> "none", val |-> <<>>]
\* A value of another type whose truth value is false, such as 0 or ().
FalsyObj == [kind |-> "falsy", val |-> <<>>]

\* The two object keys of the model, a/b/c and a/bc, and the prefix a/b.
P_a_b_c == << <<"a">>, <<"b">>, <<"c">> >>
P_a_bc == << <<"a">>, <<"b", "c">> >>
P_a_b == << <<"a">>, <<"b">> >>
P_a == << <<"a">> >>
P_root == << >>

\* Locations callers pass: canonical and non-canonical strings, a list of
\* segments, a Path, a string with an invalid segment, and a non-path value.
LocInputs ==
    { Str(<<"a", "/", "b", "/", "c">>),
      Str(<<"/", "a", "/", "/", "b", "c", "/">>),
      Lst(<< <<"a">>, <<"b">>, <<"c">> >>),
      PathObj(P_a_bc),
      Str(<<"a", "/", ".", ".">>),
      OtherObj }

\* Prefixes callers pass to the listing operations.
PrefixInputs ==
    { NoneObj,
      Str(<<>>),
      Lst(<<>>),
      PathObj(P_root),
      Str(<<"a", "/", "b">>),
      Str(<<"/", "a", "/">>),
      Lst(<< <<"a">>, <<"b">> >>),
      PathObj(P_a_b),
      PathObj(P_a_b_c),
      Str(<<"c">>),
      Str(<<".", ".">>),
      OtherObj,
      FalsyObj }

\* Values callers pass where a BytesLike is expected.
BytesVal(b) == [kind |-> "bytes", val |-> b]
\* BytesIO(data) after its position was moved to pos.
BytesIOObj(data, pos) == [kind |-> "bytesio", val |-> data, pos |-> pos]
BytesInputs == {BytesVal(b) : b \in Payloads} \cup {OtherObj}

(***************************************************************************)
(* Results                                                                 *)
(***************************************************************************)

Result(k, d, m, c) == [kind |-> k, data |-> d, metas |-> m, prefixes |-> c]
RUnit == Result("ok", <<>>, {}, {})
RBytes(b) == Result("ok", b, {}, {})
RMetas(m) == Result("ok", <<>>, m, {})
RListResult(m, c) == Result("ok", <<>>, m, c)
RErr(k) == Result(k, <<>>, {}, {})
\* A BytesStream over the bytes b.
RStream(b) == Result("stream", b, {}, {})

ObjectMeta(st, p) == [location |-> p, size |-> Len(st[p])]

\* What an operation leaves behind: the store, the result or error, and the
\* backend steps taken, in order.
Outcome(st, r, s) == [store |-> st, res |-> r, steps |-> s]

(***************************************************************************)
(* Path (native): parse of a raw string                                    *)
(***************************************************************************)

RECURSIVE Segments(_, _, _)
Segments(s, cur, acc) ==
    IF s = <<>>
    THEN IF cur = <<>> THEN acc ELSE Append(acc, cur)
    ELSE IF Head(s) = DELIMITER
         THEN Segments(Tail(s), <<>>, IF cur = <<>> THEN acc ELSE Append(acc, cur))
         ELSE Segments(Tail(s), Append(cur, Head(s)), acc)

ValidSegment(seg) == seg /= <<".">> /\ seg /= <<".", ".">>

\* Path(raw): split on the delimiter, drop empty segments, validate the rest.
PathCtor(s) ==
    LET segs == Segments(s, <<>>, <<>>)
    IN  IF \A i \in 1 .. Len(segs) : ValidSegment(segs[i])
        THEN [err |-> "none", path |-> segs]
        ELSE [err |-> "InvalidPath", path |-> <<>>]

(***************************************************************************)
(* Coercions of the facade                                                 *)
(***************************************************************************)

\* DELIMITER.join(raw)
RECURSIVE Join(_)
Join(l) ==
    IF l = <<>> THEN <<>>
    ELSE IF Len(l) = 1 THEN l[1]
    ELSE l[1] \o <<DELIMITER>> \o Join(Tail(l))

\* "".join(raw)
RECURSIVE JoinNoDelimiter(_)
JoinNoDelimiter(l) == IF l = <<>> THEN <<>> ELSE l[1] \o JoinNoDelimiter(Tail(l))

\* Variant: the segments of a list are joined without the delimiter.
_as_path_join_empty(raw) ==
    IF raw.kind = "str" THEN PathCtor(raw.val)
    ELSE IF raw.kind = "list" THEN PathCtor(JoinNoDelimiter(raw.val))
    ELSE IF raw.kind = "path" THEN [err |-> "none", path |-> raw.val]
    ELSE [err |-> "ValueError", path |-> <<>>]

_as_path(raw) ==
    IF raw.kind = "str" THEN PathCtor(raw.val)
    ELSE IF raw.kind = "list" THEN PathCtor(Join(raw.val))
    ELSE IF raw.kind = "path" THEN [err |-> "none", path |-> raw.val]
    ELSE [err |-> "ValueError", path |-> <<>>]

\* Variant: the whole buffer is taken (getvalue()), whatever the position.
_as_bytes_getvalue(raw) ==
    IF raw.kind = "bytes" THEN [err |-> "none", bytes |-> raw.val]
    ELSE IF raw.kind = "bytesio" THEN [err |-> "none", bytes |-> raw.val]
    ELSE [err |-> "ValueError", bytes |-> <<>>]

\* raw.read() on a BytesIO returns the bytes from the position to the end.
_as_bytes(raw) ==
    IF raw.kind = "bytes" THEN [err |-> "none", bytes |-> raw.val]
    ELSE IF raw.kind = "bytesio"
    THEN [err |-> "none", bytes |-> SubSeq(raw.val, raw.pos + 1, Len(raw.val))]
    ELSE [err |-> "ValueError", bytes |-> <<>>]

\* raw.read() leaves the position of a BytesIO at its end.
AfterRead(raw) ==
    IF raw.kind = "bytesio" THEN [raw EXCEPT !.pos = Len(raw.val)] ELSE raw

\* The bytes argument after put(location, bytes): _as_path(location) is
\* evaluated first, and _as_bytes(bytes) only if it did not raise.
BytesAfterPut(location, bytes) ==
    IF _as_path(location).err = "none" THEN AfterRead(bytes) ELSE bytes

\* Python truth value of an optional prefix argument: None, the empty string,
\* the empty list and values such as 0 are false; a Path object and other
\* objects are true.
Truthy(raw) ==
    IF raw.kind \in {"none", "falsy"} THEN FALSE
    ELSE IF raw.kind \in {"str", "list"} THEN raw.val /= <<>>
    ELSE TRUE

\* prefix_ = _as_path(prefix) if prefix else None
PrefixArg(raw) ==
    IF Truthy(raw)
    THEN LET c == _as_path(raw) IN [err |-> c.err, none |-> FALSE, path |-> c.path]
    ELSE [err |-> "none", none |-> TRUE, path |-> <<>>]

(***************************************************************************)
(* The native store: a map from Path to bytes                              *)
(***************************************************************************)

Has(st, p) == p \in DOMAIN st
Write(st, p, b) == [q \in (DOMAIN st) \cup {p} |-> IF q = p THEN b ELSE st[q]]
Remove(st, p) == [q \in (DOMAIN st) \ {p} |-> st[q]]
EmptyStore == [q \in {} |-> <<>>]

\* Segment-wise prefix match: every segment of the prefix equals the segment
\* of the path at the same position.
RECURSIVE prefix_match(_, _)
prefix_match(p, prefix) ==
    IF prefix = <<>> THEN TRUE
    ELSE IF p = <<>> THEN FALSE
    ELSE Head(p) = Head(prefix) /\ prefix_match(Tail(p), Tail(prefix))

super_head(st, p) ==
    IF Has(st, p)
    THEN Outcome(st, RMetas({ObjectMeta(st, p)}), <<"raw_get">>)
    ELSE Outcome(st, RErr("NotFound"), <<"raw_get">>)

super_get(st, p) ==
    IF Has(st, p)
    THEN Outcome(st, RBytes(st[p]), <<"raw_get">>)
    ELSE Outcome(st, RErr("NotFound"), <<"raw_get">>)

super_get_range(st, p, start, length) ==
    IF ~Has(st, p) THEN Outcome(st, RErr("NotFound"), <<"raw_get">>)
    ELSE IF start + length > Len(st[p]) THEN Outcome(st, RErr("OutOfRange"), <<"raw_get">>)
    ELSE Outcome(st, RBytes(SubSeq(st[p], start + 1, start + length)), <<"raw_get">>)

\* stream: fails with NotFound at open time when the object is missing;
\* otherwise a read session over the object's bytes as they are at open time.
super_stream(st, p) ==
    IF Has(st, p)
    THEN Outcome(st, RStream(st[p]), <<"raw_get">>)
    ELSE Outcome(st, RErr("NotFound"), <<"raw_get">>)

super_put(st, p, b) == Outcome(Write(st, p, b), RUnit, <<"raw_put">>)

super_delete(st, p) == Outcome(Remove(st, p), RUnit, <<"raw_delete">>)

super_list(st, prefix) ==
    LET under == IF prefix.none THEN DOMAIN st
                 ELSE {p \in DOMAIN st : prefix_match(p, prefix.path)}
    IN  Outcome(st, RMetas({ObjectMeta(st, p) : p \in under}), <<"raw_list">>)

super_list_with_delimiter(st, prefix) ==
    LET q == IF prefix.none THEN <<>> ELSE prefix.path
        under == {p \in DOMAIN st : prefix_match(p, q)}
        direct == {p \in under : Len(p) = Len(q) + 1}
        deeper == {p \in under : Len(p) > Len(q) + 1}
    IN  Outcome(st,
                RListResult({ObjectMeta(st, p) : p \in direct},
                            {SubSeq(p, 1, Len(q) + 1) : p \in deeper}),
                <<"raw_list">>)

\* START -> (check dst, if conditional) -> write dst -> (delete src, if
\* rename) -> DONE
CopyMachine(st, src, dst, conditional, isRename) ==
    LET checked == IF conditional THEN <<"check_dst">> ELSE <<>>
    IN  IF conditional /\ Has(st, dst)
        THEN Outcome(st, RErr("AlreadyExists"), checked)
        ELSE IF ~Has(st, src)
        THEN Outcome(st, RErr("NotFound"), checked)
        ELSE LET written == Write(st, dst, st[src])
             IN  IF isRename
                 THEN Outcome(Remove(written, src), RUnit,
                              checked \o <<"write_dst", "delete_src">>)
                 ELSE Outcome(written, RUnit, checked \o <<"write_dst">>)

super_copy(st, src, dst) == CopyMachine(st, src, dst, FALSE, FALSE)
super_copy_if_not_exists(st, src, dst) == CopyMachine(st, src, dst, TRUE, FALSE)
super_rename(st, src, dst) == CopyMachine(st, src, dst, FALSE, TRUE)
super_rename_if_not_exists(st, src, dst) == CopyMachine(st, src, dst, TRUE, TRUE)

\* The non-blocking entry points of the native class run the same logic as the
\* blocking ones; they differ in how the caller is scheduled.
super_head_async(st, p) == super_head(st, p)
super_get_range_async(st, p, start, length) == super_get_range(st, p, start, length)
super_put_async(st, p, b) == super_put(st, p, b)
super_delete_async(st, p) == super_delete(st, p)
super_list_async(st, prefix) == super_list(st, prefix)
super_list_with_delimiter_async(st, prefix) == super_list_with_delimiter(st, prefix)
super_copy_async(st, src, dst) == super_copy(st, src, dst)
super_copy_if_not_exists_async(st, src, dst) == super_copy_if_not_exists(st, src, dst)
super_rename_async(st, src, dst) == super_rename(st, src, dst)
super_rename_if_not_exists_async(st, src, dst) == super_rename_if_not_exists(st, src, dst)

(***************************************************************************)
(* The facade: class ObjectStore(_ObjectStore)                             *)
(***************************************************************************)

\* An exception raised while the arguments are coerced: nothing reaches the
\* native class.
Raise(st, e) == [store |-> st, res |-> RErr(e), steps |-> <<>>, entry |-> "none"]

\* The call of a native entry point and what it returned.
Enter(name, o) == [store |-> o.store, res |-> o.res, steps |-> o.steps, entry |-> name]

\* Variant: forwards to get, which returns the bytes instead of the metadata.
head_as_get(st, location) ==
    LET l == _as_path(location)
    IN  IF l.err /= "none" THEN Raise(st, l.err)
        ELSE Enter("get", super_get(st, l.path))

head(st, location) ==
    LET l == _as_path(location)
    IN  IF l.err /= "none" THEN Raise(st, l.err)
        ELSE Enter("head", super_head(st, l.path))

head_async(st, location) ==
    LET l == _as_path(location)
    IN  IF l.err /= "none" THEN Raise(st, l.err)
        ELSE Enter("head_async", super_head_async(st, l.path))

get(st, location) ==
    LET l == _as_path(location)
    IN  IF l.err /= "none" THEN Raise(st, l.err)
        ELSE Enter("get", super_get(st, l.path))

\* get_async returns super().get(...): the blocking native entry point.
get_async(st, location) ==
    LET l == _as_path(location)
    IN  IF l.err /= "none" THEN Raise(st, l.err)
        ELSE Enter("get", super_get(st, l.path))

\* Variant: start and length passed in the wrong order.
get_range_swapped(st, location, start, length) ==
    LET l == _as_path(location)
    IN  IF l.err /= "none" THEN Raise(st, l.err)
        ELSE Enter("get_range", super_get_range(st, l.path, length, start))

get_range(st, location, start, length) ==
    LET l == _as_path(location)
    IN  IF l.err /= "none" THEN Raise(st, l.err)
        ELSE Enter("get_range", super_get_range(st, l.path, start, length))

get_range_async(st, location, start, length) ==
    LET l == _as_path(location)
    IN  IF l.err /= "none" THEN Raise(st, l.err)
        ELSE Enter("get_range_async", super_get_range_async(st, l.path, start, length))

\* Variant: forwards to get, which returns the bytes and no stream.
stream_as_get(st, location) ==
    LET l == _as_path(location)
    IN  IF l.err /= "none" THEN Raise(st, l.err)
        ELSE Enter("get", super_get(st, l.path))

stream(st, location) ==
    LET l == _as_path(location)
    IN  IF l.err /= "none" THEN Raise(st, l.err)
        ELSE Enter("stream", super_stream(st, l.path))

\* Variant: the write is skipped when the location already holds an object.
put_create_only(st, location, bytes) ==
    LET l == _as_path(location)
        b == _as_bytes(bytes)
    IN  IF l.err /= "none" THEN Raise(st, l.err)
        ELSE IF b.err /= "none" THEN Raise(st, b.err)
        ELSE IF Has(st, l.path) THEN Enter("put", Outcome(st, RUnit, <<>>))
        ELSE Enter("put", super_put(st, l.path, b.bytes))

put(st, location, bytes) ==
    LET l == _as_path(location)
        b == _as_bytes(bytes)
    IN  IF l.err /= "none" THEN Raise(st, l.err)
        ELSE IF b.err /= "none" THEN Raise(st, b.err)
        ELSE Enter("put", super_put(st, l.path, b.bytes))

put_async(st, location, bytes) ==
    LET l == _as_path(location)
        b == _as_bytes(bytes)
    IN  IF l.err /= "none" THEN Raise(st, l.err)
        ELSE IF b.err /= "none" THEN Raise(st, b.err)
        ELSE Enter("put_async", super_put_async(st, l.path, b.bytes))

\* Variant: the call is not forwarded to the native class.
delete_not_forwarded(st, location) ==
    LET l == _as_path(location)
    IN  IF l.err /= "none" THEN Raise(st, l.err)
        ELSE Enter("none", Outcome(st, RUnit, <<>>))

\* Variant: a missing object is reported as NotFound.
delete_strict(st, location) ==
    LET l == _as_path(location)
    IN  IF l.err /= "none" THEN Raise(st, l.err)
        ELSE IF ~Has(st, l.path) THEN Enter("delete", Outcome(st, RErr("NotFound"), <<>>))
        ELSE Enter("delete", super_delete(st, l.path))

delete(st, location) ==
    LET l == _as_path(location)
    IN  IF l.err /= "none" THEN Raise(st, l.err)
        ELSE Enter("delete", super_delete(st, l.path))

delete_async(st, location) ==
    LET l == _as_path(location)
    IN  IF l.err /= "none" THEN Raise(st, l.err)
        ELSE Enter("delete_async", super_delete_async(st, l.path))

\* Variant: the test of the optional prefix is inverted.
list_inverted_guard(st, prefix) ==
    LET c == _as_path(prefix)
        prefix_ == IF ~Truthy(prefix)
                   THEN [err |-> c.err, none |-> FALSE, path |-> c.path]
                   ELSE [err |-> "none", none |-> TRUE, path |-> <<>>]
    IN  IF prefix_.err /= "none" THEN Raise(st, prefix_.err)
        ELSE Enter("list", super_list(st, prefix_))

list(st, prefix) ==
    LET prefix_ == PrefixArg(prefix)
    IN  IF prefix_.err /= "none" THEN Raise(st, prefix_.err)
        ELSE Enter("list", super_list(st, prefix_))

\* Variant: the prefix is coerced without the test for an omitted prefix.
list_async_unguarded(st, prefix) ==
    LET c == _as_path(prefix)
    IN  IF c.err /= "none" THEN Raise(st, c.err)
        ELSE Enter("list_async",
                   super_list_async(st, [err |-> "none", none |-> FALSE, path |-> c.path]))

list_async(st, prefix) ==
    LET prefix_ == PrefixArg(prefix)
    IN  IF prefix_.err /= "none" THEN Raise(st, prefix_.err)
        ELSE Enter("list_async", super_list_async(st, prefix_))

\* Variant: forwards to the flat listing.
list_with_delimiter_as_list(st, prefix) ==
    LET prefix_ == PrefixArg(prefix)
    IN  IF prefix_.err /= "none" THEN Raise(st, prefix_.err)
        ELSE Enter("list", super_list(st, prefix_))

\* Variant: the prefix is coerced without the test for an omitted prefix.
list_with_delimiter_unguarded(st, prefix) ==
    LET c == _as_path(prefix)
    IN  IF c.err /= "none" THEN Raise(st, c.err)
        ELSE Enter("list_with_delimiter",
                   super_list_with_delimiter(st, [err |-> "none", none |-> FALSE,
                                                  path |-> c.path]))

list_with_delimiter(st, prefix) ==
    LET prefix_ == PrefixArg(prefix)
    IN  IF prefix_.err /= "none" THEN Raise(st, prefix_.err)
        ELSE Enter("list_with_delimiter", super_list_with_delimiter(st, prefix_))

list_with_delimiter_async(st, prefix) ==
    LET prefix_ == PrefixArg(prefix)
    IN  IF prefix_.err /= "none" THEN Raise(st, prefix_.err)
        ELSE Enter("list_with_delimiter_async", super_list_with_delimiter_async(st, prefix_))

\* Variant: source and destination passed in the wrong order.
copy_swapped(st, src, dst) ==
    LET s == _as_path(src)
        d == _as_path(dst)
    IN  IF s.err /= "none" THEN Raise(st, s.err)
        ELSE IF d.err /= "none" THEN Raise(st, d.err)
        ELSE Enter("copy", super_copy(st, d.path, s.path))

copy(st, src, dst) ==
    LET s == _as_path(src)
        d == _as_path(dst)
    IN  IF s.err /= "none" THEN Raise(st, s.err)
        ELSE IF d.err /= "none" THEN Raise(st, d.err)
        ELSE Enter("copy", super_copy(st, s.path, d.path))

copy_async(st, src, dst) ==
    LET s == _as_path(src)
        d == _as_path(dst)
    IN  IF s.err /= "none" THEN Raise(st, s.err)
        ELSE IF d.err /= "none" THEN Raise(st, d.err)
        ELSE Enter("copy_async", super_copy_async(st, s.path, d.path))

\* Variant: forwards to the unconditional copy.
copy_if_not_exists_as_copy(st, src, dst) ==
    LET s == _as_path(src)
        d == _as_path(dst)
    IN  IF s.err /= "none" THEN Raise(st, s.err)
        ELSE IF d.err /= "none" THEN Raise(st, d.err)
        ELSE Enter("copy", super_copy(st, s.path, d.path))

copy_if_not_exists(st, src, dst) ==
    LET s == _as_path(src)
        d == _as_path(dst)
    IN  IF s.err /= "none" THEN Raise(st, s.err)
        ELSE IF d.err /= "none" THEN Raise(st, d.err)
        ELSE Enter("copy_if_not_exists", super_copy_if_not_exists(st, s.path, d.path))

\* Variant: forwards to the unconditional copy_async.
copy_if_not_exists_async_unconditional(st, src, dst) ==
    LET s == _as_path(src)
        d == _as_path(dst)
    IN  IF s.err /= "none" THEN Raise(st, s.err)
        ELSE IF d.err /= "none" THEN Raise(st, d.err)
        ELSE Enter("copy_async", super_copy_async(st, s.path, d.path))

copy_if_not_exists_async(st, src, dst) ==
    LET s == _as_path(src)
        d == _as_path(dst)
    IN  IF s.err /= "none" THEN Raise(st, s.err)
        ELSE IF d.err /= "none" THEN Raise(st, d.err)
        ELSE Enter("copy_if_not_exists_async",
                   super_copy_if_not_exists_async(st, s.path, d.path))

\* Variant: forwards to copy, so the source is kept.
rename_as_copy(st, src, dst) ==
    LET s == _as_path(src)
        d == _as_path(dst)
    IN  IF s.err /= "none" THEN Raise(st, s.err)
        ELSE IF d.err /= "none" THEN Raise(st, d.err)
        ELSE Enter("copy", super_copy(st, s.path, d.path))

rename(st, src, dst) ==
    LET s == _as_path(src)
        d == _as_path(dst)
    IN  IF s.err /= "none" THEN Raise(st, s.err)
        ELSE IF d.err /= "none" THEN Raise(st, d.err)
        ELSE Enter("rename", super_rename(st, s.path, d.path))

\* Variant: forwards to copy_async, so the source is never deleted.
rename_async_as_copy_async(st, src, dst) ==
    LET s == _as_path(src)
        d == _as_path(dst)
    IN  IF s.err /= "none" THEN Raise(st, s.err)
        ELSE IF d.err /= "none" THEN Raise(st, d.err)
        ELSE Enter("copy_async", super_copy_async(st, s.path, d.path))

rename_async(st, src, dst) ==
    LET s == _as_path(src)
        d == _as_path(dst)
    IN  IF s.err /= "none" THEN Raise(st, s.err)
        ELSE IF d.err /= "none" THEN Raise(st, d.err)
        ELSE Enter("rename_async", super_rename_async(st, s.path, d.path))

\* Variant: forwards to the unconditional rename.
rename_if_not_exists_as_rename(st, src, dst) ==
    LET s == _as_path(src)
        d == _as_path(dst)
    IN  IF s.err /= "none" THEN Raise(st, s.err)
        ELSE IF d.err /= "none" THEN Raise(st, d.err)
        ELSE Enter("rename", super_rename(st, s.path, d.path))

rename_if_not_exists(st, src, dst) ==
    LET s == _as_path(src)
        d == _as_path(dst)
    IN  IF s.err /= "none" THEN Raise(st, s.err)
        ELSE IF d.err /= "none" THEN Raise(st, d.err)
        ELSE Enter("rename_if_not_exists", super_rename_if_not_exists(st, s.path, d.path))

rename_if_not_exists_async(st, src, dst) ==
    LET s == _as_path(src)
        d == _as_path(dst)
    IN  IF s.err /= "none" THEN Raise(st, s.err)
        ELSE IF d.err /= "none" THEN Raise(st, d.err)
        ELSE Enter("rename_if_not_exists_async",
                   super_rename_if_not_exists_async(st, s.path, d.path))

(***************************************************************************)
(* The state machine: one caller issuing one call at a time                *)
(***************************************************************************)

\* The arguments of a call; the ones an operation does not take are NoneObj / 0.
Args(a, b, bytes, start, length) ==
    [a |-> a, b |-> b, bytes |-> bytes, start |-> start, length |-> length]

PathArgs(a) == Args(a, NoneObj, NoneObj, 0, 0)
TwoPathArgs(a, b) == Args(a, b, NoneObj, 0, 0)

NoCall ==
    [op |-> "none", async |-> FALSE, args |-> PathArgs(NoneObj), pre |-> EmptyStore,
     res |-> RUnit, steps |-> <<>>, entry |-> "none"]

\* No stream: data and offset are the session's, chunk, pos and got the
\* caller's last chunk, running offset and the chunks concatenated so far.
NoStream ==
    [open |-> FALSE, data |-> <<>>, offset |-> 0, chunk |-> <<>>, pos |-> 0, got |-> <<>>]

\* The tasks of one event loop, and a task that has not called the store.
Tasks == {1, 2}

IdleTask ==
    [st |-> "idle", op |-> "none", args |-> PathArgs(NoneObj), entry |-> "none",
     phase |-> "start", res |-> RUnit, steps |-> <<>>, pre |-> EmptyStore]

\* A freshly constructed store over an empty directory.
Init ==
    /\ store = EmptyStore
    /\ pc = "ready"
    /\ last = NoCall
    /\ strm = NoStream
    /\ buf = BytesIOObj(<<>>, 0)
    /\ tasks = [t \in Tasks |-> IdleTask]
    /\ cap = TRUE

\* The caller invokes op and gets its outcome: the store is updated and the
\* call is recorded with the store it started from.
Do(op, isAsync, args, out) ==
    /\ pc = "ready"
    /\ store' = out.store
    /\ pc' = "returned"
    /\ last' = [op |-> op, async |-> isAsync, args |-> args, pre |-> store,
                res |-> out.res, steps |-> out.steps, entry |-> out.entry]
    /\ UNCHANGED <<strm, buf, tasks, cap>>

CallHead == \E l \in LocInputs : Do("head", FALSE, PathArgs(l), head(store, l))
CallHeadAsync == \E l \in LocInputs : Do("head", TRUE, PathArgs(l), head_async(store, l))
CallGet == \E l \in LocInputs : Do("get", FALSE, PathArgs(l), get(store, l))
CallGetAsync == \E l \in LocInputs : Do("get", TRUE, PathArgs(l), get_async(store, l))

CallGetRange ==
    \E l \in LocInputs, s \in Starts, n \in Lengths :
        Do("get_range", FALSE, Args(l, NoneObj, NoneObj, s, n), get_range(store, l, s, n))

CallGetRangeAsync ==
    \E l \in LocInputs, s \in Starts, n \in Lengths :
        Do("get_range", TRUE, Args(l, NoneObj, NoneObj, s, n),
           get_range_async(store, l, s, n))

CallPut ==
    \E l \in LocInputs, b \in BytesInputs :
        Do("put", FALSE, Args(l, NoneObj, b, 0, 0), put(store, l, b))

CallPutAsync ==
    \E l \in LocInputs, b \in BytesInputs :
        Do("put", TRUE, Args(l, NoneObj, b, 0, 0), put_async(store, l, b))

CallDelete == \E l \in LocInputs : Do("delete", FALSE, PathArgs(l), delete(store, l))

CallDeleteAsync ==
    \E l \in LocInputs : Do("delete", TRUE, PathArgs(l), delete_async(store, l))

CallList == \E q \in PrefixInputs : Do("list", FALSE, PathArgs(q), list(store, q))

CallListAsync ==
    \E q \in PrefixInputs : Do("list", TRUE, PathArgs(q), list_async(store, q))

CallListWithDelimiter ==
    \E q \in PrefixInputs :
        Do("list_with_delimiter", FALSE, PathArgs(q), list_with_delimiter(store, q))

CallListWithDelimiterAsync ==
    \E q \in PrefixInputs :
        Do("list_with_delimiter", TRUE, PathArgs(q), list_with_delimiter_async(store, q))

CallCopy ==
    \E s \in LocInputs, d \in LocInputs :
        Do("copy", FALSE, TwoPathArgs(s, d), copy(store, s, d))

CallCopyAsync ==
    \E s \in LocInputs, d \in LocInputs :
        Do("copy", TRUE, TwoPathArgs(s, d), copy_async(store, s, d))

CallCopyIfNotExists ==
    \E s \in LocInputs, d \in LocInputs :
        Do("copy_if_not_exists", FALSE, TwoPathArgs(s, d), copy_if_not_exists(store, s, d))

CallCopyIfNotExistsAsync ==
    \E s \in LocInputs, d \in LocInputs :
        Do("copy_if_not_exists", TRUE, TwoPathArgs(s, d),
           copy_if_not_exists_async(store, s, d))

CallRename ==
    \E s \in LocInputs, d \in LocInputs :
        Do("rename", FALSE, TwoPathArgs(s, d), rename(store, s, d))

CallRenameAsync ==
    \E s \in LocInputs, d \in LocInputs :
        Do("rename", TRUE, TwoPathArgs(s, d), rename_async(store, s, d))

CallRenameIfNotExists ==
    \E s \in LocInputs, d \in LocInputs :
        Do("rename_if_not_exists", FALSE, TwoPathArgs(s, d),
           rename_if_not_exists(store, s, d))

CallRenameIfNotExistsAsync ==
    \E s \in LocInputs, d \in LocInputs :
        Do("rename_if_not_exists", TRUE, TwoPathArgs(s, d),
           rename_if_not_exists_async(store, s, d))

\* The caller takes the result (or catches the exception) and goes on.
Return ==
    /\ pc = "returned"
    /\ pc' = "ready"
    /\ last' = NoCall
    /\ strm' = NoStream
    /\ UNCHANGED <<store, buf, tasks, cap>>

\* stream(location): on success the caller enters the loop over the chunks.
CallStream ==
    \E l \in LocInputs :
        LET out == stream(store, l)
        IN  /\ pc = "ready"
            /\ store' = out.store
            /\ last' = [op |-> "stream", async |-> FALSE, args |-> PathArgs(l),
                        pre |-> store, res |-> out.res, steps |-> out.steps,
                        entry |-> out.entry]
            /\ IF out.res.kind = "stream"
               THEN /\ pc' = "streaming"
                    /\ strm' = [NoStream EXCEPT !.open = TRUE, !.data = out.res.data]
               ELSE /\ pc' = "returned"
                    /\ strm' = NoStream
            /\ UNCHANGED <<buf, tasks, cap>>

\* One iteration of `async for chunk in store.stream(path)`: the session
\* yields the next chunk, of a size the backend chooses, and the caller adds
\* its size to pos.
StreamNext ==
    /\ pc = "streaming"
    /\ strm.offset < Len(strm.data)
    /\ \E n \in 1 .. (Len(strm.data) - strm.offset) :
          LET chunk == SubSeq(strm.data, strm.offset + 1, strm.offset + n)
          IN  strm' = [strm EXCEPT !.offset = strm.offset + n,
                                   !.chunk = chunk,
                                   !.pos = strm.pos + Len(chunk),
                                   !.got = strm.got \o chunk]
    /\ UNCHANGED <<store, pc, last, buf, tasks, cap>>

\* The bytes are exhausted: the iteration stops and the loop is left.
StreamEnd ==
    /\ pc = "streaming"
    /\ strm.offset = Len(strm.data)
    /\ pc' = "returned"
    /\ strm' = [strm EXCEPT !.open = FALSE]
    /\ UNCHANGED <<store, last, buf, tasks, cap>>

Next ==
    \/ CallHead \/ CallHeadAsync
    \/ CallGet \/ CallGetAsync
    \/ CallGetRange \/ CallGetRangeAsync
    \/ CallPut \/ CallPutAsync
    \/ CallDelete \/ CallDeleteAsync
    \/ CallList \/ CallListAsync
    \/ CallListWithDelimiter \/ CallListWithDelimiterAsync
    \/ CallCopy \/ CallCopyAsync
    \/ CallCopyIfNotExists \/ CallCopyIfNotExistsAsync
    \/ CallRename \/ CallRenameAsync
    \/ CallRenameIfNotExists \/ CallRenameIfNotExistsAsync
    \/ Return
    \/ CallStream \/ StreamNext \/ StreamEnd

Spec == Init /\ [][Next]_vars

\* The event loop keeps running the caller's `async for` loop: an enabled
\* iteration step is eventually taken.
FairSpec == Spec /\ WF_vars(StreamNext) /\ WF_vars(StreamEnd)

(***************************************************************************)
(* A caller that writes from one BytesIO object                            *)
(***************************************************************************)

\* A new store and buf = BytesIO(data), positioned at its start.
BufInit ==
    /\ store = EmptyStore
    /\ pc = "ready"
    /\ last = NoCall
    /\ strm = NoStream
    /\ \E d \in Payloads : buf = BytesIOObj(d, 0)
    /\ tasks = [t \in Tasks |-> IdleTask]
    /\ cap = TRUE

\* put(location, buf) or put_async(location, buf): the call reads the buffer.
DoBufPut(isAsync, l, out) ==
    /\ pc = "ready"
    /\ store' = out.store
    /\ pc' = "returned"
    /\ last' = [op |-> "put", async |-> isAsync, args |-> Args(l, NoneObj, buf, 0, 0),
                pre |-> store, res |-> out.res, steps |-> out.steps, entry |-> out.entry]
    /\ buf' = BytesAfterPut(l, buf)
    /\ UNCHANGED <<strm, tasks, cap>>

BufPut == \E l \in LocInputs : DoBufPut(FALSE, l, put(store, l, buf))
BufPutAsync == \E l \in LocInputs : DoBufPut(TRUE, l, put_async(store, l, buf))

\* put(location, data) with the bytes value the buffer was made from.
BufPutBytes ==
    \E l \in LocInputs :
        Do("put", FALSE, Args(l, NoneObj, BytesVal(buf.val), 0, 0),
           put(store, l, BytesVal(buf.val)))

\* buf.seek(n)
BufSeek ==
    /\ pc = "ready"
    /\ \E n \in 0 .. Len(buf.val) : n /= buf.pos /\ buf' = [buf EXCEPT !.pos = n]
    /\ UNCHANGED <<store, pc, last, strm, tasks, cap>>

BufNext == BufPut \/ BufPutAsync \/ BufPutBytes \/ BufSeek \/ Return

BufSpec == BufInit /\ [][BufNext]_vars

TypeOK ==
    /\ DOMAIN store \subseteq {P_a_b_c, P_a_bc}
    /\ \A p \in DOMAIN store : store[p] \in Payloads
    /\ pc \in {"ready", "returned", "streaming"}

(***************************************************************************)
(* Vocabulary of the properties                                            *)
(***************************************************************************)

Returned(op) == pc = "returned" /\ last.op = op
ValidLoc(raw) == _as_path(raw).err = "none"
Canon(raw) == _as_path(raw).path
Src == Canon(last.args.a)
Dst == Canon(last.args.b)
BothValid == ValidLoc(last.args.a) /\ ValidLoc(last.args.b)

\* The blocking and the non-blocking entry point of an operation, by name.
SyncOf(op, st, args) ==
    CASE op = "head" -> head(st, args.a)
      [] op = "get" -> get(st, args.a)
      [] op = "get_range" -> get_range(st, args.a, args.start, args.length)
      [] op = "put" -> put(st, args.a, args.bytes)
      [] op = "delete" -> delete(st, args.a)
      [] op = "list" -> list(st, args.a)
      [] op = "list_with_delimiter" -> list_with_delimiter(st, args.a)
      [] op = "copy" -> copy(st, args.a, args.b)
      [] op = "copy_if_not_exists" -> copy_if_not_exists(st, args.a, args.b)
      [] op = "rename" -> rename(st, args.a, args.b)
      [] op = "rename_if_not_exists" -> rename_if_not_exists(st, args.a, args.b)

AsyncOf(op, st, args) ==
    CASE op = "head" -> head_async(st, args.a)
      [] op = "get" -> get_async(st, args.a)
      [] op = "get_range" -> get_range_async(st, args.a, args.start, args.length)
      [] op = "put" -> put_async(st, args.a, args.bytes)
      [] op = "delete" -> delete_async(st, args.a)
      [] op = "list" -> list_async(st, args.a)
      [] op = "list_with_delimiter" -> list_with_delimiter_async(st, args.a)
      [] op = "copy" -> copy_async(st, args.a, args.b)
      [] op = "copy_if_not_exists" -> copy_if_not_exists_async(st, args.a, args.b)
      [] op = "rename" -> rename_async(st, args.a, args.b)
      [] op = "rename_if_not_exists" -> rename_if_not_exists_async(st, args.a, args.b)

(***************************************************************************)
(* C1: for every operation with both entry points, every store state and   *)
(* every argument tuple, the blocking and the *_async entry point return   *)
(* the same result or the same error kind and leave the same final store:  *)
(* whichever entry point a call went through, its result and the store it  *)
(* left are those the other entry point gives from the same starting store *)
(* and arguments.                                                          *)
(***************************************************************************)
C1_SyncAsyncEquivalence ==
    (pc = "returned" /\ last.op /= "stream") =>
        LET other == IF last.async THEN SyncOf(last.op, last.pre, last.args)
                     ELSE AsyncOf(last.op, last.pre, last.args)
        IN  /\ last.res = other.res
            /\ store = other.store

\* An awaited rename_async that moved an object.
C1_Witness ==
    /\ Returned("rename") /\ last.async
    /\ last.res.kind = "ok"
    /\ store /= last.pre

(***************************************************************************)
(* C2: put(p, b) followed by get(p) returns exactly b, whether p was       *)
(* absent or held other content before: put overwrites unconditionally.    *)
(***************************************************************************)
C2_PutGetRoundTrip ==
    (Returned("put") /\ ValidLoc(last.args.a) /\ last.args.bytes.kind = "bytes") =>
        /\ last.res = RUnit
        /\ get(store, last.args.a).res = RBytes(last.args.bytes.val)

\* A put over an object that held different content.
C2_Witness ==
    /\ Returned("put") /\ last.res.kind = "ok"
    /\ Has(last.pre, Src)
    /\ last.pre[Src] /= last.args.bytes.val
    /\ get(store, last.args.a).res = RBytes(last.args.bytes.val)

(***************************************************************************)
(* C3, as claimed: for all src and dst where src holds c, after            *)
(* rename(src, dst) get(dst) returns c and get(src) fails with NotFound.   *)
(* It cannot hold when src and dst denote the same location.               *)
(***************************************************************************)
C3_RenameAnyPaths ==
    (Returned("rename") /\ BothValid /\ Has(last.pre, Src)) =>
        /\ last.res = RUnit
        /\ get(store, last.args.b).res = RBytes(last.pre[Src])
        /\ get(store, last.args.a).res = RErr("NotFound")

(***************************************************************************)
(* C3, amended: for all src and dst denoting different locations where src *)
(* holds c (dst absent or holding any content), after rename(src, dst)     *)
(* get(dst) returns c and get(src) fails with NotFound.                    *)
(***************************************************************************)
C3_RenameDistinctPaths ==
    (Returned("rename") /\ BothValid /\ Has(last.pre, Src) /\ Src /= Dst) =>
        /\ last.res = RUnit
        /\ get(store, last.args.b).res = RBytes(last.pre[Src])
        /\ get(store, last.args.a).res = RErr("NotFound")

\* A rename onto a different location that held other content.
C3_Witness ==
    /\ Returned("rename") /\ BothValid /\ Src /= Dst
    /\ Has(last.pre, Src) /\ Has(last.pre, Dst)
    /\ last.pre[Src] /= last.pre[Dst]
    /\ last.res = RUnit

(***************************************************************************)
(* C4: copy_if_not_exists(src, dst) fails with AlreadyExists and leaves    *)
(* dst and src as they were when dst already holds an object; when dst is  *)
(* absent and src exists it succeeds and dst holds src's content.          *)
(***************************************************************************)
C4_CopyIfNotExists ==
    (Returned("copy_if_not_exists") /\ BothValid) =>
        /\ Has(last.pre, Dst) =>
              /\ last.res = RErr("AlreadyExists")
              /\ store = last.pre
        /\ (~Has(last.pre, Dst) /\ Has(last.pre, Src)) =>
              /\ last.res = RUnit
              /\ get(store, last.args.b).res = RBytes(last.pre[Src])

\* A refused conditional copy between two objects of different content.
C4_Witness ==
    /\ Returned("copy_if_not_exists") /\ BothValid /\ Src /= Dst
    /\ Has(last.pre, Src) /\ Has(last.pre, Dst)
    /\ last.pre[Src] /= last.pre[Dst]
    /\ last.res = RErr("AlreadyExists")

(***************************************************************************)
(* C5: copy(src, dst) with src present makes get(dst) return src's content *)
(* whether or not dst existed, and leaves src present and unchanged; with  *)
(* src absent it fails with NotFound and changes nothing.                  *)
(***************************************************************************)
C5_Copy ==
    (Returned("copy") /\ BothValid) =>
        /\ Has(last.pre, Src) =>
              /\ last.res = RUnit
              /\ get(store, last.args.b).res = RBytes(last.pre[Src])
              /\ get(store, last.args.a).res = RBytes(last.pre[Src])
        /\ ~Has(last.pre, Src) =>
              /\ last.res = RErr("NotFound")
              /\ store = last.pre

\* A copy that overwrote a destination of different content.
C5_Witness ==
    /\ Returned("copy") /\ BothValid /\ Src /= Dst
    /\ Has(last.pre, Src) /\ Has(last.pre, Dst)
    /\ last.pre[Src] /= last.pre[Dst]
    /\ last.res = RUnit

(***************************************************************************)
(* C6: rename_if_not_exists(src, dst) fails with AlreadyExists and leaves  *)
(* src and dst unchanged when dst already exists; src is deleted only      *)
(* after the conditional write to dst has succeeded: a delete_src step is  *)
(* preceded by write_dst and that by check_dst, and whenever src is gone   *)
(* dst was absent before and now holds what src held.                      *)
(***************************************************************************)
C6_RenameIfNotExists ==
    (Returned("rename_if_not_exists") /\ BothValid) =>
        /\ Has(last.pre, Dst) =>
              /\ last.res = RErr("AlreadyExists")
              /\ store = last.pre
        /\ \A i \in 1 .. Len(last.steps) :
              last.steps[i] = "delete_src" =>
                  \E j \in 1 .. (i - 1) :
                      /\ last.steps[j] = "write_dst"
                      /\ \E k \in 1 .. (j - 1) : last.steps[k] = "check_dst"
        /\ (Has(last.pre, Src) /\ ~Has(store, Src)) =>
              /\ ~Has(last.pre, Dst)
              /\ Has(store, Dst)
              /\ store[Dst] = last.pre[Src]

\* A refused conditional rename: both objects exist, with different content.
C6_Witness ==
    /\ Returned("rename_if_not_exists") /\ BothValid /\ Src /= Dst
    /\ Has(last.pre, Src) /\ Has(last.pre, Dst)
    /\ last.pre[Src] /= last.pre[Dst]
    /\ last.res = RErr("AlreadyExists")
    /\ Has(store, Src)

(***************************************************************************)
(* C7: for an object at p with content b, get_range(p, start, length) with *)
(* start >= 0, length > 0 returns exactly b[start:start+length] when       *)
(* start+length <= len(b), and fails with OutOfRange when start+length >   *)
(* len(b), start beyond len(b) included; it never returns fewer than       *)
(* length bytes.                                                           *)
(***************************************************************************)
C7_GetRange ==
    (Returned("get_range") /\ ValidLoc(last.args.a) /\ Has(last.pre, Src)) =>
        LET b == last.pre[Src]
            start == last.args.start
            length == last.args.length
        IN  /\ start + length <= Len(b) =>
                  last.res = RBytes([i \in 1 .. length |-> b[start + i]])
            /\ start + length > Len(b) => last.res = RErr("OutOfRange")
            /\ last.res.kind = "ok" => Len(last.res.data) = length

\* A proper inner slice: one byte from offset 1 of a two-byte object.
C7_Witness ==
    /\ Returned("get_range") /\ ValidLoc(last.args.a) /\ Has(last.pre, Src)
    /\ last.args.start = 1 /\ last.args.length = 1
    /\ Len(last.pre[Src]) >= 2
    /\ last.pre[Src][1] /= last.pre[Src][2]
    /\ last.res = RBytes(<<last.pre[Src][2]>>)

\* The locations objects of the model can live at.
Keys == {Canon(l) : l \in {x \in LocInputs : ValidLoc(x)}}

\* get(p) and head(p) fail with NotFound and no listing, whatever the prefix,
\* has an entry located at p.
NotFoundAt(st, p) ==
    /\ get(st, PathObj(p)).res = RErr("NotFound")
    /\ head(st, PathObj(p)).res = RErr("NotFound")
    /\ \A q \in PrefixInputs : \A m \in list(st, q).res.metas : m.location /= p

\* The call is an operation that writes location p.
WritesTo(call, p) ==
    \/ call.op = "put" /\ ValidLoc(call.args.a) /\ Canon(call.args.a) = p
    \/ /\ call.op \in {"copy", "copy_if_not_exists", "rename", "rename_if_not_exists"}
       /\ ValidLoc(call.args.b)
       /\ Canon(call.args.b) = p

(***************************************************************************)
(* C8: after delete(p) completes, and until some later operation writes p  *)
(* again, get(p) and head(p) fail with NotFound and no list() result has   *)
(* an entry with location p: a completed delete leaves p not found, and a  *)
(* location that is not found stays so across every step that is not a     *)
(* write to it.                                                            *)
(***************************************************************************)
C8_DeletedStaysNotFound ==
    [][ /\ (pc' = "returned" /\ last'.op = "delete" /\ ValidLoc(last'.args.a)) =>
              /\ last'.res = RUnit
              /\ NotFoundAt(store', Canon(last'.args.a))
        /\ \A p \in Keys :
              (NotFoundAt(store, p) /\ ~WritesTo(last', p)) => NotFoundAt(store', p)
      ]_vars

\* A delete that removed an object while another one stayed listed.
C8_Witness ==
    /\ Returned("delete") /\ ValidLoc(last.args.a)
    /\ Has(last.pre, Src)
    /\ NotFoundAt(store, Src)
    /\ list(store, NoneObj).res.metas /= {}

StartsWithSegments(p, q) == Len(q) <= Len(p) /\ SubSeq(p, 1, Len(q)) = q

\* The segment sequence a prefix argument denotes (none when omitted).
PrefixSegments(raw) == IF raw.kind = "none" THEN <<>> ELSE Canon(raw)

(***************************************************************************)
(* C10: for every store state and prefix q, list(q) returns exactly the    *)
(* objects whose segment sequence starts with the segment sequence of q,   *)
(* whole segments compared: prefix a/b includes a/b/c and excludes a/bc,   *)
(* and a prefix without matches gives an empty list, not an error.         *)
(***************************************************************************)
C10_ListBySegments ==
    (Returned("list") /\ (last.args.a.kind = "none" \/ ValidLoc(last.args.a))) =>
        LET q == PrefixSegments(last.args.a)
            expected == {p \in DOMAIN last.pre : StartsWithSegments(p, q)}
        IN  /\ last.res.kind = "ok"
            /\ {m.location : m \in last.res.metas} = expected
            /\ \A m \in last.res.metas : m.size = Len(last.pre[m.location])
            /\ Cardinality(last.res.metas) = Cardinality(expected)
            /\ store = last.pre
            /\ q = P_a_b =>
                  /\ Has(last.pre, P_a_b_c) =>
                        \E m \in last.res.metas : m.location = P_a_b_c
                  /\ \A m \in last.res.metas : m.location /= P_a_bc

\* Listing a/b where a/b/c and a/bc both exist returns a/b/c alone.
C10_Witness ==
    /\ Returned("list") /\ last.args.a = Str(<<"a", "/", "b">>)
    /\ Has(last.pre, P_a_b_c) /\ Has(last.pre, P_a_bc)
    /\ {m.location : m \in last.res.metas} = {P_a_b_c}

\* Listing a prefix nothing lives under returns the empty list.
C10_EmptyWitness ==
    /\ Returned("list") /\ last.args.a = Str(<<"c">>)
    /\ DOMAIN last.pre /= {}
    /\ last.res = RMetas({})

(***************************************************************************)
(* C11: for every store state and prefix q, list_with_delimiter(q)         *)
(* partitions the objects under q: objects holds exactly those with one    *)
(* segment beyond q, common_prefixes holds exactly q plus the first        *)
(* further segment of those with two or more segments beyond q, and no     *)
(* object nested deeper than one level appears in objects (a/bc and a/b/c  *)
(* under prefix a give objects = [a/bc], common_prefixes = {a/b}).         *)
(***************************************************************************)
C11_DelimiterPartition ==
    (Returned("list_with_delimiter")
        /\ (last.args.a.kind = "none" \/ ValidLoc(last.args.a))) =>
        LET q == PrefixSegments(last.args.a)
            n == Len(q)
            under == {p \in DOMAIN last.pre : StartsWithSegments(p, q)}
            listed == {m.location : m \in last.res.metas}
        IN  /\ last.res.kind = "ok"
            /\ listed = {p \in under : Len(p) = n + 1}
            /\ \A m \in last.res.metas : m.size = Len(last.pre[m.location])
            /\ Cardinality(last.res.metas) = Cardinality(listed)
            /\ last.res.prefixes = {q \o <<p[n + 1]>> : p \in {x \in under : Len(x) >= n + 2}}
            /\ \A p \in listed : Len(p) <= n + 1
            /\ \A p \in under :
                  Len(p) > n =>
                      (p \in listed) /= (SubSeq(p, 1, n + 1) \in last.res.prefixes)
            /\ (q = P_a /\ DOMAIN last.pre = {P_a_b_c, P_a_bc}) =>
                  /\ listed = {P_a_bc}
                  /\ last.res.prefixes = {P_a_b}

\* list_with_delimiter("a") over a/bc and a/b/c: one object, one common prefix.
C11_Witness ==
    /\ Returned("list_with_delimiter") /\ PrefixSegments(last.args.a) = P_a
    /\ DOMAIN last.pre = {P_a_b_c, P_a_bc}
    /\ {m.location : m \in last.res.metas} = {P_a_bc}
    /\ last.res.prefixes = {P_a_b}

\* Path-like inputs paired with the segment sequence each denotes: strings
\* with and without leading, trailing and duplicate delimiters, lists of the
\* segments, and Path values.
Forms ==
    { <<Str(<<"a", "/", "b", "/", "c">>), P_a_b_c>>,
      <<Str(<<"/", "a", "/", "b", "/", "/", "c", "/">>), P_a_b_c>>,
      <<Lst(<< <<"a">>, <<"b">>, <<"c">> >>), P_a_b_c>>,
      <<PathObj(P_a_b_c), P_a_b_c>>,
      <<Str(<<"a", "/", "b", "c">>), P_a_bc>>,
      <<Str(<<"/", "a", "/", "/", "b", "c", "/">>), P_a_bc>>,
      <<Lst(<< <<"a">>, <<"b", "c">> >>), P_a_bc>>,
      <<PathObj(P_a_bc), P_a_bc>> }

(***************************************************************************)
(* C13: every path-like input (string, list of segments, Path) is coerced  *)
(* to one canonical Path before dispatch, so inputs denoting the same      *)
(* segment sequence address the same object: an object put through one     *)
(* form is returned by get, head and list through every other form.        *)
(***************************************************************************)
C13_CanonicalPath ==
    /\ \A f \in Forms : _as_path(f[1]) = [err |-> "none", path |-> f[2]]
    /\ (Returned("put") /\ last.res = RUnit) =>
          \A e \in Forms : \A f \in Forms :
              (e[1] = last.args.a /\ f[2] = e[2]) =>
                  /\ get(store, f[1]).res = RBytes(last.args.bytes.val)
                  /\ head(store, f[1]).res
                        = RMetas({[location |-> e[2], size |-> Len(last.args.bytes.val)]})
                  /\ \E m \in list(store, f[1]).res.metas : m.location = e[2]
                  /\ get_async(store, f[1]).res = RBytes(last.args.bytes.val)

\* An object put through a list of segments and read back through a string
\* with extra delimiters and through a Path.
C13_Witness ==
    /\ Returned("put") /\ last.res = RUnit
    /\ last.args.a = Lst(<< <<"a">>, <<"b">>, <<"c">> >>)
    /\ last.args.bytes.val /= <<>>
    /\ get(store, Str(<<"/", "a", "/", "b", "/", "/", "c", "/">>)).res
          = RBytes(last.args.bytes.val)
    /\ get(store, PathObj(P_a_b_c)).res = RBytes(last.args.bytes.val)

(***************************************************************************)
(* C14: in every reachable store state, for every existing object p,       *)
(* head(p).location equals p and head(p).size equals the length of the     *)
(* bytes most recently committed at p, that is len(get(p)) in the same     *)
(* state, also after an overwrite by put, copy or rename.                  *)
(***************************************************************************)
C14_HeadMatchesContent ==
    \A p \in DOMAIN store :
        LET h == head(store, PathObj(p)).res
            ha == head_async(store, PathObj(p)).res
            g == get(store, PathObj(p)).res
        IN  /\ g.kind = "ok"
            /\ h = RMetas({[location |-> p, size |-> Len(g.data)]})
            /\ ha = h
            /\ pc = "returned" /\ WritesTo(last, p) /\ last.res = RUnit =>
                  LET written == IF last.op = "put" THEN last.args.bytes.val
                                 ELSE last.pre[Src]
                  IN  \A m \in h.metas : m.size = Len(written)

\* An object overwritten by a copy of a longer one: head reports the new size.
C14_Witness ==
    /\ Returned("copy") /\ BothValid /\ last.res = RUnit
    /\ Has(last.pre, Dst)
    /\ Len(last.pre[Dst]) < Len(last.pre[Src])
    /\ head(store, last.args.b).res
          = RMetas({[location |-> Dst, size |-> Len(last.pre[Src])]})

\* Inputs that cannot be converted to a Path: a string with an invalid
\* segment, and values that are not a string, a list or a Path.
Inconvertible ==
    { Str(<<"a", "/", ".", ".">>), Str(<<".", ".">>), OtherObj, FalsyObj }

TwoPathOps == {"copy", "copy_if_not_exists", "rename", "rename_if_not_exists"}

\* The call failed while its arguments were coerced: nothing reached the
\* native class and the store is as before.
FailedBeforeBackend ==
    /\ last.res.kind \in {"InvalidPath", "ValueError"}
    /\ last.entry = "none"
    /\ last.steps = <<>>
    /\ store = last.pre

(***************************************************************************)
(* C18: an operation called with a path input that cannot be converted to  *)
(* a valid Path (an invalid segment, or a value that is not a string, list *)
(* or Path) fails before anything is submitted to the backend and leaves   *)
(* the store unchanged; for the two-path operations also when only dst is  *)
(* invalid and src is a valid existing object.                             *)
(***************************************************************************)
C18_InvalidPathNeverSubmitted ==
    (pc = "returned" /\ last.op /= "none") =>
        /\ last.args.a \in Inconvertible => FailedBeforeBackend
        /\ (last.op \in TwoPathOps /\ last.args.b \in Inconvertible) => FailedBeforeBackend

\* C18 without the listing operations: every operation that takes a location
\* fails before the backend when the location is inconvertible.
C18_LocationsNeverSubmitted ==
    (pc = "returned" /\ last.op \notin {"none", "list", "list_with_delimiter"}) =>
        /\ last.args.a \in Inconvertible => FailedBeforeBackend
        /\ (last.op \in TwoPathOps /\ last.args.b \in Inconvertible) => FailedBeforeBackend

\* The empty prefixes: the root Path, the empty string and the empty list.
EmptyPrefixes == {PathObj(P_root), Str(<<>>), Lst(<<>>)}

(***************************************************************************)
(* C19: for every store state, list and list_with_delimiter (blocking and  *)
(* async) called with an empty prefix - the root Path, the empty string or *)
(* the empty list - return the same result as when the prefix is omitted:  *)
(* the listing of the entire store.                                        *)
(***************************************************************************)
C19_EmptyPrefixIsOmitted ==
    (pc = "returned" /\ last.op \in {"list", "list_with_delimiter"}
        /\ last.args.a \in EmptyPrefixes) =>
        LET omitted == IF last.async THEN AsyncOf(last.op, last.pre, PathArgs(NoneObj))
                       ELSE SyncOf(last.op, last.pre, PathArgs(NoneObj))
        IN  /\ omitted.res.kind = "ok"
            /\ last.res = omitted.res
            /\ store = omitted.store
            /\ last.op = "list" => {m.location : m \in last.res.metas} = DOMAIN last.pre
            /\ last.op = "list_with_delimiter" =>
                  \A p \in DOMAIN last.pre :
                      \/ \E m \in last.res.metas : m.location = p
                      \/ <<p[1]>> \in last.res.prefixes

\* list_with_delimiter_async(Path("/")) over a store holding both objects.
C19_Witness ==
    /\ Returned("list_with_delimiter") /\ last.async
    /\ last.args.a = PathObj(P_root)
    /\ DOMAIN last.pre = {P_a_b_c, P_a_bc}
    /\ last.res.prefixes = {P_a}

\* The caller's stream call was on an object that existed when it was made.
StreamOnObject == last.op = "stream" /\ ValidLoc(last.args.a) /\ Has(last.pre, Src)

\* What holds of a stream in every state: it was opened, each chunk is the
\* slice of the object's bytes at the running offset, the chunks so far are
\* the bytes up to it, and after the loop the offset is the object's length.
StreamChunksExact ==
    (pc \in {"streaming", "returned"} /\ StreamOnObject) =>
        LET b == last.pre[Src]
            size == Len(strm.chunk)
        IN  /\ last.res.kind = "stream"
            /\ strm.pos <= Len(b)
            /\ size <= strm.pos
            /\ strm.chunk = [i \in 1 .. size |-> b[strm.pos - size + i]]
            /\ strm.got = [i \in 1 .. strm.pos |-> b[i]]
            /\ strm.pos > 0 => size > 0
            /\ pc = "returned" => (strm.pos = Len(b) /\ strm.got = b)

(***************************************************************************)
(* C12: a stream opened on an existing object terminates after finitely    *)
(* many chunks, and the chunks concatenated in yield order equal exactly   *)
(* the object's bytes as they were when the stream was opened: each chunk  *)
(* equals the slice of the data at the running offset and the final offset *)
(* equals the object's length.                                             *)
(***************************************************************************)
C12_StreamExactAndFinite ==
    /\ []StreamChunksExact
    /\ (pc = "streaming") ~> (pc = "returned" /\ last.op = "stream" /\ ~strm.open)

\* A two-byte object read to the end in two chunks.
C12_Witness ==
    /\ pc = "returned" /\ StreamOnObject
    /\ Len(last.pre[Src]) = 2
    /\ last.pre[Src][1] /= last.pre[Src][2]
    /\ Len(strm.chunk) = 1
    /\ strm.got = last.pre[Src]

(***************************************************************************)
(* C20: put(location, buf) with a BytesIO buf stores exactly the bytes of  *)
(* buf from its current read position to its end and leaves buf's position *)
(* at the end, so a second put of the same BytesIO without rewinding       *)
(* stores an empty payload; put with a bytes value is repeatable and       *)
(* stores the same payload every time.                                     *)
(***************************************************************************)
C20_BytesIOConsumed ==
    (Returned("put") /\ ValidLoc(last.args.a)) =>
        LET arg == last.args.bytes
            again == IF last.async THEN put_async(store, last.args.a, buf)
                     ELSE put(store, last.args.a, buf)
            same == IF last.async THEN put_async(store, last.args.a, arg)
                    ELSE put(store, last.args.a, arg)
        IN  /\ last.res = RUnit
            /\ arg.kind = "bytesio" =>
                  /\ store[Src] = [i \in 1 .. (Len(arg.val) - arg.pos) |-> arg.val[arg.pos + i]]
                  /\ buf = BytesIOObj(arg.val, Len(arg.val))
                  /\ again.res = RUnit
                  /\ again.store[Src] = <<>>
            /\ arg.kind = "bytes" =>
                  /\ store[Src] = arg.val
                  /\ same.res = RUnit
                  /\ same.store = store

\* A put of a two-byte BytesIO positioned at 1: one byte is stored, the
\* position is left at 2 and a second put would store nothing.
C20_Witness ==
    /\ Returned("put") /\ ValidLoc(last.args.a)
    /\ last.args.bytes.kind = "bytesio"
    /\ Len(last.args.bytes.val) = 2 /\ last.args.bytes.pos = 1
    /\ store[Src] = <<last.args.bytes.val[2]>>
    /\ buf.pos = 2
    /\ put(store, last.args.a, buf).store[Src] = <<>>

(***************************************************************************)
(* Tasks of one event loop calling the *_async entry points concurrently   *)
(***************************************************************************)

\* The native entry points that return an awaitable.
AsyncEntries ==
    {"head_async", "get_async", "get_range_async", "put_async", "delete_async",
     "list_async", "list_with_delimiter_async", "copy_async",
     "copy_if_not_exists_async", "rename_async", "rename_if_not_exists_async"}

ConditionalEntries ==
    {"copy_if_not_exists", "copy_if_not_exists_async",
     "rename_if_not_exists", "rename_if_not_exists_async"}

RenameEntries ==
    {"rename", "rename_async", "rename_if_not_exists", "rename_if_not_exists_async"}

CopyEntries ==
    {"copy", "copy_async"} \cup ConditionalEntries \cup RenameEntries

\* One backend step of the copy/rename state machine from the given phase:
\* START -> (check dst, if conditional) -> write dst -> (delete src, if
\* rename) -> DONE.  With a native conditional write the check and the write
\* are one step; without it they are two, and the write does not check again.
CopyStep(st, src, dst, conditional, isRename, atomic, phase) ==
    LET afterWrite == IF isRename THEN "written" ELSE "finished"
        step(s, ph, r, did) == [store |-> s, phase |-> ph, res |-> r, steps |-> did]
    IN  IF phase = "start" /\ conditional
        THEN IF Has(st, dst)
             THEN step(st, "finished", RErr("AlreadyExists"), <<"check_dst">>)
             ELSE IF ~atomic
             THEN step(st, "checked", RUnit, <<"check_dst">>)
             ELSE IF ~Has(st, src)
             THEN step(st, "finished", RErr("NotFound"), <<"check_dst">>)
             ELSE step(Write(st, dst, st[src]), afterWrite, RUnit,
                       <<"check_dst", "write_dst">>)
        ELSE IF phase \in {"start", "checked"}
        THEN IF ~Has(st, src)
             THEN step(st, "finished", RErr("NotFound"), <<>>)
             ELSE step(Write(st, dst, st[src]), afterWrite, RUnit, <<"write_dst">>)
        ELSE step(Remove(st, src), "finished", RUnit, <<"delete_src">>)

\* The next backend step of the call task record c is in.
NativeStepOf(st, c, atomic) ==
    IF c.entry \in CopyEntries
    THEN CopyStep(st, Canon(c.args.a), Canon(c.args.b),
                  c.entry \in ConditionalEntries, c.entry \in RenameEntries,
                  atomic, c.phase)
    ELSE LET out == AsyncOf(c.op, st, c.args)
         IN  [store |-> out.store, phase |-> "finished", res |-> out.res,
              steps |-> out.steps]

\* The calls the tasks make.
L_abc == Str(<<"a", "/", "b", "/", "c">>)
L_ab == Str(<<"a", "/", "b">>)
TaskLocs == {L_abc, OtherObj}
TaskSrcs == {L_abc, PathObj(P_a_bc), OtherObj}
TaskDsts == {L_ab, L_abc, OtherObj}

TaskCalls ==
    {[op |-> o, args |-> PathArgs(l)] :
        o \in {"head", "get", "delete", "list", "list_with_delimiter"}, l \in TaskLocs}
    \cup {[op |-> "get_range", args |-> Args(l, NoneObj, NoneObj, 0, 1)] : l \in TaskLocs}
    \cup {[op |-> "put", args |-> Args(l, NoneObj, BytesVal(<<2, 1>>), 0, 0)] : l \in TaskLocs}
    \cup {[op |-> o, args |-> TwoPathArgs(s, d)] :
            o \in TwoPathOps, s \in TaskSrcs, d \in TaskDsts}

\* The stores the tasks start from: both sources present, a/b absent or present.
SourcesOnly == Write(Write(EmptyStore, P_a_b_c, <<1>>), P_a_bc, <<2>>)
TaskStores == {SourcesOnly, Write(SourcesOnly, P_a_b, <<1, 2>>)}

TaskInit ==
    /\ store \in TaskStores
    /\ cap \in BOOLEAN
    /\ tasks = [t \in Tasks |-> IdleTask]
    /\ pc = "ready"
    /\ last = NoCall
    /\ strm = NoStream
    /\ buf = BytesIOObj(<<>>, 0)

InFlight(t) == tasks[t].st \in {"suspended", "blocking"}

\* No task is inside a blocking native call on the event loop's thread.
LoopFree == \A u \in Tasks : tasks[u].st /= "blocking"

\* Task t calls `await store.<op>_async(...)`: the facade coerces the arguments
\* and calls a native entry point.  An awaitable suspends the task; a blocking
\* entry point keeps the thread until the backend is done.
Invoke(t) ==
    /\ tasks[t].st = "idle"
    /\ LoopFree
    /\ \E c \in TaskCalls :
          LET out == AsyncOf(c.op, store, c.args)
          IN  tasks' = [tasks EXCEPT ![t] =
                  [st |-> IF out.entry = "none" THEN "done"
                          ELSE IF out.entry \in AsyncEntries THEN "suspended"
                          ELSE "blocking",
                   op |-> c.op, args |-> c.args, entry |-> out.entry,
                   phase |-> IF out.entry = "none" THEN "finished" ELSE "start",
                   res |-> IF out.entry = "none" THEN out.res ELSE RUnit,
                   steps |-> <<>>, pre |-> store]]
    /\ UNCHANGED <<store, pc, last, strm, buf, cap>>

\* The backend performs the next step of t's call.
NativeStep(t) ==
    /\ InFlight(t)
    /\ tasks[t].phase /= "finished"
    /\ LET r == NativeStepOf(store, tasks[t], cap)
       IN  /\ store' = r.store
           /\ tasks' = [tasks EXCEPT ![t].phase = r.phase,
                                     ![t].res = r.res,
                                     ![t].steps = tasks[t].steps \o r.steps]
    /\ UNCHANGED <<pc, last, strm, buf, cap>>

\* The backend fails at the next step of t's call.
NativeFail(t) ==
    /\ InFlight(t)
    /\ tasks[t].phase /= "finished"
    /\ tasks' = [tasks EXCEPT ![t].phase = "finished", ![t].res = RErr("Backend")]
    /\ UNCHANGED <<store, pc, last, strm, buf, cap>>

\* t's call returns: a suspended task is resumed by the event loop, a
\* blocking call returns on the thread it kept.
Complete(t) ==
    /\ InFlight(t)
    /\ tasks[t].phase = "finished"
    /\ tasks[t].st = "blocking" \/ LoopFree
    /\ tasks' = [tasks EXCEPT ![t].st = "done"]
    /\ UNCHANGED <<store, pc, last, strm, buf, cap>>

TaskNext ==
    \E t \in Tasks : Invoke(t) \/ NativeStep(t) \/ NativeFail(t) \/ Complete(t)

TaskSpec == TaskInit /\ [][TaskNext]_vars

\* A task running alone gets what the call gives in one piece.
TaskSoloMatchesCall ==
    \A t \in Tasks :
        (/\ tasks[t].st = "done"
         /\ tasks[t].res.kind /= "Backend"
         /\ \A u \in Tasks \ {t} : tasks[u].st = "idle")
        => LET out == AsyncOf(tasks[t].op, tasks[t].pre, tasks[t].args)
           IN  /\ tasks[t].res = out.res
               /\ store = out.store
               /\ tasks[t].steps = out.steps

\* Tasks t and u both called copy_if_not_exists or rename_if_not_exists with
\* the same destination, absent when each of them called, from sources that
\* were present, and both calls are over without a backend failure.
ConditionalOps == {"copy_if_not_exists", "rename_if_not_exists"}

TDst(t) == Canon(tasks[t].args.b)
TSrc(t) == Canon(tasks[t].args.a)

Contender(t) ==
    /\ tasks[t].st = "done"
    /\ tasks[t].op \in ConditionalOps
    /\ ValidLoc(tasks[t].args.a) /\ ValidLoc(tasks[t].args.b)
    /\ ~Has(tasks[t].pre, TDst(t))
    /\ Has(tasks[t].pre, TSrc(t))
    /\ tasks[t].res.kind /= "Backend"

Contend(t, u) == t /= u /\ Contender(t) /\ Contender(u) /\ TDst(t) = TDst(u)

\* t won and u lost: u failed with AlreadyExists and the destination holds
\* the content t's source had.
WinsOver(t, u) ==
    /\ tasks[t].res = RUnit
    /\ tasks[u].res = RErr("AlreadyExists")
    /\ Has(store, TDst(t))
    /\ store[TDst(t)] = tasks[t].pre[TSrc(t)]

(***************************************************************************)
(* C15 as stated: when several callers concurrently invoke                 *)
(* copy_if_not_exists or rename_if_not_exists with the same absent         *)
(* destination, at most one of them succeeds, every other one fails with   *)
(* AlreadyExists, and the destination ends up holding the winner's source  *)
(* content - whatever the backend.                                         *)
(***************************************************************************)
C15_OneWinnerAnyBackend ==
    \A t, u \in Tasks :
        Contend(t, u) => (WinsOver(t, u) \/ WinsOver(u, t))

(***************************************************************************)
(* C15: when the backend has a native conditional write, of several        *)
(* callers that concurrently invoke copy_if_not_exists or                  *)
(* rename_if_not_exists with the same absent destination exactly one       *)
(* succeeds, every other one fails with AlreadyExists, and the destination *)
(* ends up holding the winner's source content.                            *)
(***************************************************************************)
C15_OneWinnerWithConditionalWrite ==
    cap => \A t, u \in Tasks :
               Contend(t, u) => (WinsOver(t, u) \/ WinsOver(u, t))

\* Two tasks raced from different sources on a backend with the conditional
\* write: task 2 won, task 1 got AlreadyExists.
C15_Witness ==
    /\ cap
    /\ Contend(1, 2)
    /\ TSrc(1) /= TSrc(2)
    /\ tasks[1].op /= tasks[2].op
    /\ tasks[1].pre = tasks[2].pre
    /\ WinsOver(2, 1)

(***************************************************************************)
(* C16 as stated: every *_async entry point of an operation that touches   *)
(* the backend is a suspension point: between its invocation and its       *)
(* completion the calling task is suspended and the event loop's thread is *)
(* free for the other tasks; get_async included.                           *)
(***************************************************************************)
C16_AsyncIsSuspensionPoint ==
    \A t \in Tasks :
        InFlight(t) => (tasks[t].st = "suspended" /\ LoopFree)

\* A task inside get_async keeps the thread: it is in the blocking native get
\* while the other task, suspended in its own call, cannot be resumed.
C16_GetAsyncBlocks ==
    /\ tasks[1].op = "get" /\ tasks[1].st = "blocking" /\ tasks[1].entry = "get"
    /\ tasks[2].st = "suspended" /\ tasks[2].phase = "finished"
    /\ ~LoopFree

\* Every other *_async entry point suspends the task that calls it.
C16_OtherAsyncSuspend ==
    \A t \in Tasks :
        (InFlight(t) /\ tasks[t].op /= "get") => tasks[t].st = "suspended"

\* The steps copy/rename take, in order, for the operation a task called.
FullSteps(op) ==
    (IF op \in ConditionalOps THEN <<"check_dst">> ELSE <<>>)
    \o <<"write_dst">>
    \o (IF op \in {"rename", "rename_if_not_exists"} THEN <<"delete_src">> ELSE <<>>)

IsPrefixOf(s, full) == Len(s) <= Len(full) /\ SubSeq(full, 1, Len(s)) = s

Did(t, step) == \E i \in 1 .. Len(tasks[t].steps) : tasks[t].steps[i] = step

Alone(t) == \A u \in Tasks \ {t} : tasks[u].st = "idle"

(***************************************************************************)
(* C17: copy/rename follow the step order START -> (check dst, if          *)
(* conditional) -> write dst -> (delete src, if rename) -> DONE.  The      *)
(* steps a call has taken are an initial part of that sequence and all of  *)
(* it when the call succeeds; as long as the write to dst has not happened *)
(* (a failure before it included) src and dst are unmodified; after the    *)
(* write and before the delete (a failure between them included) dst is    *)
(* written and src is still present; src is never deleted without dst      *)
(* having been written.                                                    *)
(***************************************************************************)
C17_CopyRenameStepOrder ==
    \A t \in Tasks :
        (tasks[t].op \in TwoPathOps /\ tasks[t].entry /= "none") =>
            LET c == tasks[t]
                src == TSrc(t)
                dst == TDst(t)
            IN  /\ IsPrefixOf(c.steps, FullSteps(c.op))
                /\ (c.st = "done" /\ c.res = RUnit) => c.steps = FullSteps(c.op)
                /\ Did(t, "delete_src") => Did(t, "write_dst")
                /\ (Alone(t) /\ ~Did(t, "write_dst")) => store = c.pre
                /\ (Alone(t) /\ Did(t, "write_dst") /\ ~Did(t, "delete_src")) =>
                      /\ Has(c.pre, src)
                      /\ store = Write(c.pre, dst, c.pre[src])
                      /\ Has(store, src) /\ store[src] = c.pre[src]
                /\ (Alone(t) /\ Did(t, "delete_src")) =>
                      store = Remove(Write(c.pre, dst, c.pre[src]), src)

\* A rename_async whose backend failed after the write and before the
\* delete: a/b is written and a/b/c is still there.
C17_Witness ==
    /\ tasks[1].op = "rename" /\ tasks[1].st = "done" /\ Alone(1)
    /\ tasks[1].res = RErr("Backend")
    /\ tasks[1].steps = <<"write_dst">>
    /\ TSrc(1) = P_a_b_c /\ TDst(1) = P_a_b
    /\ store[P_a_b] = tasks[1].pre[P_a_b_c]
    /\ Has(store, P_a_b_c)

\* A rename_if_not_exists_async whose backend failed after the check and
\* before the write: the store is as it was.
C17_FailedBeforeWrite ==
    /\ tasks[1].op = "rename_if_not_exists" /\ tasks[1].st = "done" /\ Alone(1)
    /\ tasks[1].res = RErr("Backend")
    /\ tasks[1].steps = <<"check_dst">>
    /\ store = tasks[1].pre

====
